---- MODULE Spec2Model ----
(***************************************************************************)
(* A model of github.com/dradtke/mtg: the deck reader NewDeck with its     *)
(* concurrent card resolution (deck.go) and the Gatherer client            *)
(* GetCardForName / makeGathererRequest with the process-wide card cache   *)
(* (card.go).                                                              *)
(*                                                                         *)
(* A Go string is modelled as a sequence of one-character strings, a Go    *)
(* map as a function whose domain is the set of keys present.              *)
(***************************************************************************)
EXTENDS Integers, Sequences, FiniteSets, TLC

----------------------------------------------------------------------------
(* Strings and maps                                                        *)

EmptyStr == << >>

EmptyMap == << >>

\* m[k] with Go's zero value for an absent key
MapGet(m, k) == IF k \in DOMAIN m THEN m[k] ELSE 0

\* m[k] = v
MapPut(m, k, v) == [x \in (DOMAIN m) \cup {k} |-> IF x = k THEN v ELSE m[x]]

\* m[k] = v where the code has m[k] += v
MapAdd_Overwrite(m, k, v) == MapPut(m, k, v)

\* m[k] += v
MapAdd(m, k, v) == MapPut(m, k, MapGet(m, k) + v)

DigitChars == <<"0", "1", "2", "3", "4", "5", "6", "7", "8", "9">>

IsDigit(c) == \E i \in 1..10 : DigitChars[i] = c

DigitVal(c) == (CHOOSE i \in 1..10 : DigitChars[i] = c) - 1

\* unicode.IsSpace on the characters of the model's alphabet
IsSpace(c) == c \in {" ", "\t"}

RECURSIVE TrimLeftSpace(_)
TrimLeftSpace(s) ==
    IF s = EmptyStr \/ ~IsSpace(Head(s)) THEN s ELSE TrimLeftSpace(Tail(s))

RECURSIVE TrimRightSpace(_)
TrimRightSpace(s) ==
    IF s = EmptyStr \/ ~IsSpace(s[Len(s)]) THEN s
    ELSE TrimRightSpace(SubSeq(s, 1, Len(s) - 1))

\* strings.TrimSpace
TrimSpace(s) == TrimRightSpace(TrimLeftSpace(s))

\* strings.TrimLeft(s, "/")
RECURSIVE TrimLeftSlash(_)
TrimLeftSlash(s) ==
    IF s = EmptyStr \/ Head(s) # "/" THEN s ELSE TrimLeftSlash(Tail(s))

\* strings.LastIndex(s, "/"), 0-based, -1 when absent
RECURSIVE LastIndexFrom(_, _)
LastIndexFrom(s, i) ==
    IF i = 0 THEN -1
    ELSE IF s[i] = "/" THEN i - 1 ELSE LastIndexFrom(s, i - 1)

\* the index as if the string ended in its last "/"
LastIndexSlash_WholeBase(s) == Len(s) - 1

LastIndexSlash(s) == LastIndexFrom(s, Len(s))

\* strings.Split(s, sep) for a one-character separator
RECURSIVE SplitAcc(_, _, _, _)
SplitAcc(s, sep, cur, acc) ==
    IF s = EmptyStr THEN Append(acc, cur)
    ELSE IF Head(s) = sep THEN SplitAcc(Tail(s), sep, EmptyStr, Append(acc, cur))
    ELSE SplitAcc(Tail(s), sep, Append(cur, Head(s)), acc)

Split(s, sep) == SplitAcc(s, sep, EmptyStr, << >>)

\* strings.Join(parts, sep)
RECURSIVE Join(_, _)
Join(parts, sep) ==
    IF parts = << >> THEN EmptyStr
    ELSE IF Len(parts) = 1 THEN parts[1]
    ELSE parts[1] \o sep \o Join(Tail(parts), sep)

\* strings.Fields: the maximal runs of non-space characters
RECURSIVE FieldsAcc(_, _, _)
FieldsAcc(s, cur, acc) ==
    IF s = EmptyStr THEN (IF cur = EmptyStr THEN acc ELSE Append(acc, cur))
    ELSE IF IsSpace(Head(s))
         THEN FieldsAcc(Tail(s), EmptyStr, IF cur = EmptyStr THEN acc ELSE Append(acc, cur))
         ELSE FieldsAcc(Tail(s), Append(cur, Head(s)), acc)

Fields(s) == FieldsAcc(s, EmptyStr, << >>)

\* number of leading decimal digits of s
RECURSIVE DigitRun(_)
DigitRun(s) ==
    IF s = EmptyStr \/ ~IsDigit(Head(s)) THEN 0 ELSE 1 + DigitRun(Tail(s))

RECURSIVE DigitsValue(_, _)
DigitsValue(s, acc) ==
    IF s = EmptyStr THEN acc ELSE DigitsValue(Tail(s), 10 * acc + DigitVal(Head(s)))

\* strconv.Atoi: an optional sign and one or more decimal digits
Atoi(s) ==
    LET signed == s # EmptyStr /\ Head(s) \in {"+", "-"}
        body   == IF signed THEN Tail(s) ELSE s
    IN  IF body # EmptyStr /\ DigitRun(body) = Len(body)
        THEN [err |-> FALSE,
              n   |-> IF signed /\ Head(s) = "-" THEN 0 - DigitsValue(body, 0)
                      ELSE DigitsValue(body, 0)]
        ELSE [err |-> TRUE, n |-> 0]

----------------------------------------------------------------------------
(* deck.go: the .dec reader                                                *)

SBPrefix == <<"S", "B", ":">>

\* decLineRe = ^(\d+) (.+)$ : the digit run, one space, a non-empty rest
decLineRe(line) ==
    LET k == DigitRun(line)
    IN  IF k >= 1 /\ Len(line) >= k + 2 /\ line[k + 1] = " "
        THEN <<SubSeq(line, 1, k), SubSeq(line, k + 2, Len(line))>>
        ELSE << >>

parseCardLine(line) ==
    LET matches == decLineRe(line)
    IN  IF matches = << >> THEN [err |-> TRUE, n |-> 0, name |-> EmptyStr]
        ELSE LET a == Atoi(matches[1])
             IN  IF a.err THEN [err |-> TRUE, n |-> 0, name |-> EmptyStr]
                 ELSE [err |-> FALSE, n |-> a.n, name |-> matches[2]]

\* the scanner loop of NewDeck over the lines the reader yields
RECURSIVE ScanLines(_, _, _)
ScanLines(lines, main, sideboard) ==
    IF lines = << >> THEN [err |-> FALSE, main |-> main, sideboard |-> sideboard]
    ELSE LET trimmed     == TrimSpace(Head(lines))
             isSideboard == Len(trimmed) > 3 /\ SubSeq(trimmed, 1, 3) = SBPrefix
             line        == IF isSideboard
                            THEN TrimSpace(SubSeq(trimmed, 4, Len(trimmed)))
                            ELSE trimmed
             p           == parseCardLine(line)
         IN  IF trimmed = EmptyStr THEN ScanLines(Tail(lines), main, sideboard)
             ELSE IF p.err THEN [err |-> TRUE, main |-> EmptyMap, sideboard |-> EmptyMap]
             ELSE IF isSideboard
                  THEN ScanLines(Tail(lines), main, MapAdd(sideboard, p.name, p.n))
                  ELSE ScanLines(Tail(lines), MapAdd(main, p.name, p.n), sideboard)

----------------------------------------------------------------------------
(* card.go: resolvePath                                                    *)

RECURSIVE Normalize(_, _)
Normalize(src, dst) ==
    IF src = << >> THEN dst
    ELSE LET elem == Head(src)
         IN  IF elem = <<".">> THEN Normalize(Tail(src), dst)
             ELSE IF elem = <<".", ".">>
                  THEN Normalize(Tail(src),
                                 IF Len(dst) > 0 THEN SubSeq(dst, 1, Len(dst) - 1) ELSE dst)
                  ELSE Normalize(Tail(src), Append(dst, elem))

\* resolvePath without the final slash after a last segment "." or ".."
resolvePath_NoFinalSlash(base, ref) ==
    LET full == IF ref = EmptyStr THEN base
                ELSE IF Head(ref) # "/"
                     THEN SubSeq(base, 1, LastIndexSlash(base) + 1) \o ref
                     ELSE ref
        src  == Split(full, "/")
        dst  == Normalize(src, << >>)
    IN  IF full = EmptyStr THEN EmptyStr
        ELSE <<"/">> \o TrimLeftSlash(Join(dst, <<"/">>))

\* resolvePath: the reference merged with the base's directory, its "." and
\* ".." segments resolved
resolvePath(base, ref) ==
    LET full == IF ref = EmptyStr THEN base
                ELSE IF Head(ref) # "/"
                     THEN SubSeq(base, 1, LastIndexSlash(base) + 1) \o ref
                     ELSE ref
        src  == Split(full, "/")
        last == src[Len(src)]
        dst0 == Normalize(src, << >>)
        dst  == IF last = <<".">> \/ last = <<".", ".">>
                THEN Append(dst0, EmptyStr) ELSE dst0
    IN  IF full = EmptyStr THEN EmptyStr
        ELSE <<"/">> \o TrimLeftSlash(Join(dst, <<"/">>))

----------------------------------------------------------------------------
(* card.go: Card, the remote service and response routing                  *)

gathererBase == <<"h","t","t","p",":","/","/","g","a","t","h","e","r","e","r",".","w","i","z","a","r","d","s",".","c","o","m">>

DetailsPath == <<"/","P","a","g","e","s","/","C","a","r","d","/","D","e","t","a","i","l","s",".","a","s","p","x">>

ErrorPath == <<"/","P","a","g","e","s","/","E","r","r","o","r",".","a","s","p","x">>

SearchPath == <<"/","P","a","g","e","s","/","S","e","a","r","c","h","/","D","e","f","a","u","l","t",".","a","s","p","x">>

\* a path of the service that the client does not know
OtherPath == <<"/","P","a","g","e","s","/","D","e","f","a","u","l","t",".","a","s","p","x">>

\* the link of a result row to a card's detail page, and one back to a result page
HrefDetails == <<".",".","/","C","a","r","d","/","D","e","t","a","i","l","s",".","a","s","p","x","?","m","u","l","t","i","v","e","r","s","e","i","d","=","7">>

HrefSearch == <<"D","e","f","a","u","l","t",".","a","s","p","x","?","p","a","g","e","=","1">>

\* Card{}: the zero value of the struct
ZeroCard ==
    [MultiverseID |-> 0, Name |-> EmptyStr, ManaCost |-> EmptyStr,
     ConvertedManaCost |-> 0, Type |-> EmptyStr, Text |-> EmptyStr,
     Rarity |-> EmptyStr]

\* url.QueryEscape on the characters the model uses: letters and digits are
\* kept, a space becomes "+", the punctuation below is percent-encoded
PercentCode ==
    ("+" :> <<"%", "2", "B">>) @@ ("[" :> <<"%", "5", "B">>) @@
    ("]" :> <<"%", "5", "D">>) @@ (":" :> <<"%", "3", "A">>) @@
    ("/" :> <<"%", "2", "F">>) @@ ("?" :> <<"%", "3", "F">>) @@
    ("=" :> <<"%", "3", "D">>)

RECURSIVE QueryEscape(_)
QueryEscape(s) ==
    IF s = EmptyStr THEN EmptyStr
    ELSE (IF Head(s) = " " THEN <<"+">>
          ELSE IF Head(s) \in DOMAIN PercentCode THEN PercentCode[Head(s)]
          ELSE <<Head(s)>>) \o QueryEscape(Tail(s))

\* the "+[part]" terms of makeGathererRequest's search expression
RECURSIVE Bracketed(_)
Bracketed(parts) ==
    IF parts = << >> THEN EmptyStr
    ELSE <<"+", "[">> \o Head(parts) \o <<"]">> \o Bracketed(Tail(parts))

\* reqURL of the first request for cardName
SearchURL(cardName) ==
    gathererBase \o SearchPath \o <<"?">> \o <<"n", "a", "m", "e", "=">>
        \o QueryEscape(Bracketed(Fields(cardName)))

----------------------------------------------------------------------------
(* Bounds of the model                                                     *)

\* lines the reader yields
MaxLines == 2

\* rows of a result table
MaxRows == 1

\* frames of makeGathererRequest the model follows
MaxDepth == 3

\* characters of a base path and of a reference given to resolvePath
MaxPathLen == 3

\* nodes of a tree given to nodeSearch
MaxNodes == 4

\* different cards in the Main map of a Deck given to Validate
MaxCards == 2

\* characters of the text in the name row of a page given to parseCard
MaxNameLen == 2

\* the card names of the model
Names == {<<"a">>, <<"b">>, <<"c">>}

\* the names that the lines of the deck-lists in Texts use
ListNames == {<<"a">>, <<"b">>}

\* the names that detail pages show
PageNames == {<<"a">>}

\* the count of a deck line
CountDigits == {<<"0">>, <<"1">>}

\* the lines of a deck-list: a blank line, a line without a count, and
\* "<count> <name>" with or without the sideboard marker
LinePool ==
    {EmptyStr, <<"a">>}
        \cup {pre \o d \o <<" ">> \o n :
                pre \in {EmptyStr, SBPrefix}, d \in CountDigits, n \in ListNames}

Texts == UNION {[1..k -> LinePool] : k \in 0..MaxLines}

\* the multiverseid query parameter of a final URL: absent, a number, not a number
Mvids == {EmptyStr, <<"7">>, <<"x">>}

Hrefs == {HrefDetails, HrefSearch}

\* a row of the result table: its cardTitle span is absent, lacks the link
\* element the code reads through, or holds a link with a text and a href
ResultRows ==
    {[title |-> "absent", text |-> EmptyStr, href |-> EmptyStr],
     [title |-> "broken", text |-> EmptyStr, href |-> EmptyStr]}
        \cup {[title |-> "link", text |-> n, href |-> h] : n \in Names, h \in Hrefs}

RowSeqs == UNION {[1..k -> ResultRows] : k \in 0..MaxRows}

\* a parsed page: whether the table the code looks for is there (cardDetails
\* on a detail page, cardItemTable on a result page), the name row of a
\* detail page and the rows of a result page
NoDoc == [table |-> FALSE, nameRow |-> "absent", name |-> EmptyStr, rows |-> << >>]

DetailDocs ==
    {NoDoc, [NoDoc EXCEPT !.table = TRUE]}
        \cup {[NoDoc EXCEPT !.table = TRUE, !.nameRow = "ok", !.name = n] : n \in PageNames}

SearchDocs == {NoDoc} \cup {[NoDoc EXCEPT !.table = TRUE, !.rows = r] : r \in RowSeqs}

\* what http.Get can yield: a transport error, or the final URL's path and
\* multiverseid parameter with the page
NoResponse == [err |-> TRUE, path |-> EmptyStr, mvid |-> EmptyStr, doc |-> NoDoc]

Responses ==
    {NoResponse}
        \cup {[err |-> FALSE, path |-> DetailsPath, mvid |-> m, doc |-> d] :
                m \in Mvids, d \in DetailDocs}
        \cup {[err |-> FALSE, path |-> p, mvid |-> EmptyStr, doc |-> NoDoc] :
                p \in {ErrorPath, OtherPath}}
        \cup {[err |-> FALSE, path |-> SearchPath, mvid |-> EmptyStr, doc |-> d] :
                d \in SearchDocs}

----------------------------------------------------------------------------
(* card.go: parseCard and the routing of makeGathererRequest               *)

\* parseCard: an error without the cardDetails table; reading through the
\* absent name row is a nil dereference; otherwise the Card
parseCard(doc) ==
    IF ~doc.table THEN [kind |-> "err", card |-> ZeroCard]
    ELSE IF doc.nameRow # "ok" THEN [kind |-> "panic", card |-> ZeroCard]
    ELSE [kind |-> "ok", card |-> [ZeroCard EXCEPT !.Name = TrimSpace(doc.name)]]

\* the loop over the result rows: the first row whose title equals cardName
RECURSIVE MatchRow(_, _)
MatchRow(rows, cardName) ==
    IF rows = << >> THEN [kind |-> "err", href |-> EmptyStr]
    ELSE IF Head(rows).title = "absent" THEN MatchRow(Tail(rows), cardName)
    ELSE IF Head(rows).title = "broken" THEN [kind |-> "panic", href |-> EmptyStr]
    ELSE IF Head(rows).text = cardName THEN [kind |-> "follow", href |-> Head(rows).href]
    ELSE MatchRow(Tail(rows), cardName)

\* one frame of makeGathererRequest after http.Get: the response for
\* extraction ("page"), an error, a panic, or the next request ("follow")
Route(resp, cardName) ==
    IF resp.err THEN [kind |-> "err", url |-> EmptyStr]
    ELSE IF resp.path = DetailsPath THEN [kind |-> "page", url |-> EmptyStr]
    ELSE IF resp.path = ErrorPath THEN [kind |-> "err", url |-> EmptyStr]
    ELSE IF resp.path = SearchPath
         THEN IF ~resp.doc.table THEN [kind |-> "err", url |-> EmptyStr]
              ELSE IF Len(resp.doc.rows) = 0 THEN [kind |-> "err", url |-> EmptyStr]
              ELSE LET m == MatchRow(resp.doc.rows, cardName)
                   IN  IF m.kind = "follow"
                       THEN [kind |-> "follow",
                             url  |-> gathererBase \o resolvePath(resp.path, m.href)]
                       ELSE [kind |-> m.kind, url |-> EmptyStr]
    ELSE [kind |-> "err", url |-> EmptyStr]

\* GetCardForName after makeGathererRequest returned a page: parseCard and
\* the multiverseid of the final URL
Extract(resp) ==
    LET p == parseCard(resp.doc)
        a == Atoi(resp.mvid)
    IN  IF p.kind # "ok" THEN [kind |-> p.kind, card |-> ZeroCard, err |-> p.kind = "err"]
        ELSE IF resp.mvid # EmptyStr
             THEN [kind |-> "ok", card |-> [p.card EXCEPT !.MultiverseID = a.n], err |-> a.err]
             ELSE [kind |-> "ok", card |-> p.card, err |-> FALSE]

\* what one frame of makeGathererRequest, and GetCardForName's extraction
\* after the last one, make of a response: "err" (an error is returned),
\* "panic", "follow" (the next request) or "ok" (a Card to publish, with
\* the error of the multiverseid conversion)
Outcome(resp, cardName) ==
    LET r == Route(resp, cardName)
        x == Extract(resp)
    IN  IF r.kind = "page"
        THEN [kind |-> x.kind, url |-> EmptyStr, card |-> x.card, err |-> x.err]
        ELSE [kind |-> r.kind, url |-> r.url, card |-> ZeroCard, err |-> r.kind = "err"]

\* the outcomes over everything the service may answer
OutcomesOf == [n \in Names |-> {Outcome(resp, n) : resp \in Responses}]

----------------------------------------------------------------------------
(* The process: NewDeck calls with their goroutines, and the card cache    *)

VARIABLES
    phase,        \* NewDeck: "idle", "running", "returned"; "crashed": the process died
    fatal,        \* the runtime's message when the process died
    main,         \* NewDeck's map main: name -> count
    sideboard,    \* NewDeck's map sideboard: name -> count
    tasks,        \* the goroutines NewDeck launched, by <<section, name>>
    cardCache,    \* the package variable cardCache: name -> Card
    hashWriting,  \* a goroutine is inside the runtime's map assignment on cardCache
    deck,         \* NewDeck's deck: Main and Sideboard, Card -> count
    mu,           \* holder of NewDeck's mutex, or NoTask
    wg,           \* counter of NewDeck's WaitGroup
    retErr,       \* the error NewDeck returned: "nil", "line" or "io"
    web,          \* the remote service: answers anything, or one page per URL
    resolved,     \* history: name -> the Card of the first GetCardForName that
                  \* returned it without error since the cache was last cleared
    call          \* the call of a function taken alone: its input and its result

vars == <<phase, fatal, main, sideboard, tasks, cardCache, hashWriting, deck, mu, wg,
          retErr, web, resolved, call>>

Sections == {"main", "sideboard"}

TaskIds == Sections \X Names

NoTask == <<"none", EmptyStr>>

EmptyDeck == [Main |-> EmptyMap, Sideboard |-> EmptyMap]

\* a service whose answers are not determined by the request
AnyWeb == [fixed |-> FALSE, page |-> EmptyMap]

\* no function is called alone
NoCall == [fn |-> "none"]

\* a goroutine before its first step
NewTask(count) ==
    [pc |-> "start", count |-> count, card |-> ZeroCard, err |-> FALSE,
     url |-> EmptyStr, depth |-> 0, tmp |-> 0]

TaskName(t) == t[2]

TaskSection(t) == t[1]

\* the outcomes of a request: of the page the service has for the URL, or
\* of everything it may answer
Answers(url, cardName) ==
    IF web.fixed THEN {Outcome(web.page[url], cardName)} ELSE OutcomesOf[cardName]

Init ==
    /\ phase = "idle"
    /\ fatal = "none"
    /\ main = EmptyMap
    /\ sideboard = EmptyMap
    /\ tasks = EmptyMap
    /\ cardCache = EmptyMap
    /\ hashWriting = FALSE
    /\ deck = EmptyDeck
    /\ mu = NoTask
    /\ wg = 0
    /\ retErr = "nil"
    /\ web = AnyWeb
    /\ resolved = EmptyMap
    /\ call = NoCall

\* an unrecovered panic or a fatal error of the runtime ends the process
Crash(reason) ==
    /\ phase' = "crashed"
    /\ fatal' = reason
    /\ main' = EmptyMap
    /\ sideboard' = EmptyMap
    /\ tasks' = EmptyMap
    /\ cardCache' = EmptyMap
    /\ hashWriting' = FALSE
    /\ deck' = EmptyDeck
    /\ mu' = NoTask
    /\ wg' = 0
    /\ retErr' = "nil"
    /\ resolved' = EmptyMap
    /\ UNCHANGED <<web, call>>

\* NewDeck up to wg.Wait: p is the result of the scanner loop; one goroutine
\* is launched per entry of main and of sideboard
NewDeck(p) ==
    LET ids == {<<"main", n>> : n \in DOMAIN p.main}
                   \cup {<<"sideboard", n>> : n \in DOMAIN p.sideboard}
    IN  /\ IF p.err
           THEN /\ phase' = "returned"
                /\ retErr' = "line"
                /\ wg' = 0
                /\ tasks' = EmptyMap
           ELSE /\ phase' = "running"
                /\ retErr' = "nil"
                /\ wg' = Cardinality(DOMAIN p.main) + Cardinality(DOMAIN p.sideboard)
                /\ tasks' = [t \in ids |->
                               NewTask(IF TaskSection(t) = "main"
                                       THEN p.main[TaskName(t)]
                                       ELSE p.sideboard[TaskName(t)])]
        /\ main' = p.main
        /\ sideboard' = p.sideboard
        /\ deck' = EmptyDeck
        /\ UNCHANGED <<fatal, cardCache, hashWriting, mu, web, resolved, call>>

\* what the scanner loop makes of the deck-lists
Scanned == {ScanLines(text, EmptyMap, EmptyMap) : text \in Texts}

\* the first NewDeck call of the process
NewDeckStart ==
    /\ phase = "idle"
    /\ \E p \in Scanned : NewDeck(p)

\* a deck-list line "1 <name>" of the main deck, and of the sideboard
MainLine(n) == <<"1", " ">> \o n

SideLine(n) == SBPrefix \o MainLine(n)

\* deck-lists that name three different cards
DistinctTexts ==
    {<<MainLine(<<"a">>), MainLine(<<"b">>), l>> : l \in {MainLine(<<"c">>), SideLine(<<"c">>)}}

\* a NewDeck call on a deck-list of different names
NewDeckDistinct ==
    /\ phase = "idle"
    /\ \E text \in DistinctTexts : NewDeck(ScanLines(text, EmptyMap, EmptyMap))

\* the URLs that a lookup of a name of the deck-lists can request when the
\* result rows link to the detail page
URLSet ==
    {SearchURL(n) : n \in ListNames}
        \cup {gathererBase \o resolvePath(SearchPath, HrefDetails)}

\* pages of a service that answers every URL with one page: the detail page
\* of a card under a numeric multiverseid and under one that is no number,
\* and a result page with the row of that card
FixedPages ==
    {[err |-> FALSE, path |-> DetailsPath, mvid |-> m,
      doc |-> [NoDoc EXCEPT !.table = TRUE, !.nameRow = "ok", !.name = <<"a">>]] :
        m \in {<<"7">>, <<"x">>}}
      \cup {[err |-> FALSE, path |-> SearchPath, mvid |-> EmptyStr,
             doc |-> [NoDoc EXCEPT !.table = TRUE,
                         !.rows = <<[title |-> "link", text |-> <<"a">>,
                                     href |-> HrefDetails]>>]]}

FixedWebs == {[fixed |-> TRUE, page |-> f] : f \in [URLSet -> FixedPages]}

\* the process in front of a service with fixed answers
InitFixed ==
    /\ phase = "idle"
    /\ fatal = "none"
    /\ main = EmptyMap
    /\ sideboard = EmptyMap
    /\ tasks = EmptyMap
    /\ cardCache = EmptyMap
    /\ hashWriting = FALSE
    /\ deck = EmptyDeck
    /\ mu = NoTask
    /\ wg = 0
    /\ retErr = "nil"
    /\ web \in FixedWebs
    /\ resolved = EmptyMap
    /\ call = NoCall

\* one frame of makeGathererRequest taken alone: the response that http.Get
\* yields and the name that is looked for
InitRoute ==
    /\ phase = "idle"
    /\ fatal = "none"
    /\ main = EmptyMap
    /\ sideboard = EmptyMap
    /\ tasks = EmptyMap
    /\ cardCache = EmptyMap
    /\ hashWriting = FALSE
    /\ deck = EmptyDeck
    /\ mu = NoTask
    /\ wg = 0
    /\ retErr = "nil"
    /\ web = AnyWeb
    /\ resolved = EmptyMap
    /\ call \in {[fn |-> "makeGathererRequest", done |-> FALSE, resp |-> r,
                  name |-> n, out |-> [kind |-> "none", url |-> EmptyStr]] :
                    r \in Responses, n \in Names}

\* the frame routes its response
RouteCall ==
    /\ call.fn = "makeGathererRequest"
    /\ ~call.done
    /\ call' = [call EXCEPT !.done = TRUE, !.out = Route(call.resp, call.name)]
    /\ UNCHANGED <<phase, fatal, main, sideboard, tasks, cardCache, hashWriting,
                   deck, mu, wg, retErr, web, resolved>>

\* no NewDeck call is under way and the cache is empty
NoProcess ==
    /\ phase = "idle"
    /\ fatal = "none"
    /\ main = EmptyMap
    /\ sideboard = EmptyMap
    /\ tasks = EmptyMap
    /\ cardCache = EmptyMap
    /\ hashWriting = FALSE
    /\ deck = EmptyDeck
    /\ mu = NoTask
    /\ wg = 0
    /\ retErr = "nil"
    /\ web = AnyWeb
    /\ resolved = EmptyMap

\* the characters of the paths: the separator, the dot and a letter
PathChars == {"/", ".", "a"}

PathStrings == UNION {[1..k -> PathChars] : k \in 0..MaxPathLen}

\* the base path and the reference of the result page's links
RefDetailsX == <<"D","e","t","a","i","l","s",".","a","s","p","x","?","x","=","1">>

BaseABC == <<"/","a","/","b","/","c">>

RefUpD == <<".",".","/","d">>

\* resolvePath taken alone: its two arguments
InitResolve ==
    /\ NoProcess
    /\ call \in {[fn |-> "resolvePath", done |-> FALSE, base |-> b, ref |-> r,
                  out |-> EmptyStr] :
                    b \in PathStrings \cup {SearchPath, BaseABC},
                    r \in PathStrings \cup {RefDetailsX, RefUpD, HrefDetails}}

\* resolvePath returns
ResolveCall ==
    /\ call.fn = "resolvePath"
    /\ ~call.done
    /\ call' = [call EXCEPT !.done = TRUE, !.out = resolvePath(call.base, call.ref)]
    /\ UNCHANGED <<phase, fatal, main, sideboard, tasks, cardCache, hashWriting,
                   deck, mu, wg, retErr, web, resolved>>

\* the trees of up to MaxNodes nodes: node 1 is the root, every other node
\* has a parent of a smaller number, and the children of a node stand in
\* document order
ChildrenOf(n, parent) ==
    [k \in 1..n |->
        LET kids == {i \in 2..n : parent[i] = k}
            RECURSIVE Ascending(_)
            Ascending(S) == IF S = {} THEN << >>
                            ELSE LET lo == CHOOSE x \in S : \A y \in S : x <= y
                                 IN  <<lo>> \o Ascending(S \ {lo})
        IN  Ascending(kids)]

Trees ==
    UNION {{ChildrenOf(n, parent) :
              parent \in {q \in [2..n -> 1..n] : \A i \in 2..n : q[i] < i}} :
           n \in 1..MaxNodes}

\* the nil *html.Node
NilNode == 0

\* the children of the visited node put in front of the queue: a
\* depth-first search
Enqueue_Front(queue, kids) == kids \o queue

\* the loop of nodeSearch: the children of the visited node go to the back
\* of the queue
Enqueue(queue, kids) == queue \o kids

\* nodeSearch from the state of its queue on: f holds of the nodes in match
RECURSIVE nodeSearchLoop(_, _, _, _, _)
nodeSearchLoop(children, match, stopAtOne, queue, nodes) ==
    IF queue = << >> THEN nodes
    ELSE LET node == Head(queue)
         IN  IF node \in match /\ stopAtOne THEN Append(nodes, node)
             ELSE nodeSearchLoop(children, match, stopAtOne,
                                 Enqueue(Tail(queue), children[node]),
                                 IF node \in match THEN Append(nodes, node) ELSE nodes)

nodeSearch(children, match, stopAtOne) ==
    nodeSearchLoop(children, match, stopAtOne, <<1>>, << >>)

findNode(children, match) ==
    LET nodes == nodeSearch(children, match, TRUE)
    IN  IF Len(nodes) > 0 THEN nodes[1] ELSE NilNode

findAllNodes(children, match) == nodeSearch(children, match, FALSE)

\* findNode and findAllNodes taken alone: a tree and the nodes of which the
\* predicate holds
InitSearch ==
    /\ NoProcess
    /\ call \in {[fn |-> "nodeSearch", done |-> FALSE, children |-> c, match |-> m,
                  first |-> NilNode, all |-> << >>] :
                    c \in Trees, m \in SUBSET (1..MaxNodes)}
    /\ call.match \subseteq DOMAIN call.children

\* both searches return
SearchCall ==
    /\ call.fn = "nodeSearch"
    /\ ~call.done
    /\ call' = [call EXCEPT !.done = TRUE,
                            !.first = findNode(call.children, call.match),
                            !.all = findAllNodes(call.children, call.match)]
    /\ UNCHANGED <<phase, fatal, main, sideboard, tasks, cardCache, hashWriting,
                   deck, mu, wg, retErr, web, resolved>>

\* the Format values: Constructed, Limited, and the unnamed zero value
Constructed == 1

Limited == 2

Formats == {0, Constructed, Limited}

BasicLand == <<"B","a","s","i","c"," ","L","a","n","d">>

\* the cards of the Decks given to Validate: spells and basic lands
DeckCardPool ==
    {[ZeroCard EXCEPT !.Name = n, !.Type = t] : n \in ListNames, t \in {EmptyStr, BasicLand}}

\* the counts of their entries, around the limits of Validate
DeckCounts == {1, 4, 5, 30, 55, 56, 59}

\* the maps from at most k of the cards to a count
CountMaps(k) ==
    UNION {[S -> DeckCounts] : S \in {T \in SUBSET DeckCardPool : Cardinality(T) <= k}}

\* sum of the counts of the entries cards of the map m
RECURSIVE SumCounts(_, _)
SumCounts(m, cards) ==
    IF cards = {} THEN 0
    ELSE LET c == CHOOSE x \in cards : TRUE
         IN  m[c] + SumCounts(m, cards \ {c})

\* Deck.Size
Size(d) == SumCounts(d.Main, DOMAIN d.Main)

NoError == [kind |-> "nil", Card |-> EmptyStr]

ErrDeckTooSmall == [kind |-> "ErrDeckTooSmall", Card |-> EmptyStr]

ErrCardLimitExceeded(name) == [kind |-> "ErrCardLimitExceeded", Card |-> name]

ErrUnknownFormat == [kind |-> "unknown format", Card |-> EmptyStr]

\* Validate with the copy limit tested before the size
Validate_LimitFirst(d, format) ==
    LET over == {c \in DOMAIN d.Main : d.Main[c] > 4}
    IN  IF format = Constructed
        THEN IF over # {} THEN {ErrCardLimitExceeded(c.Name) : c \in over}
             ELSE IF Size(d) < 60 THEN {ErrDeckTooSmall}
             ELSE {NoError}
        ELSE IF format = Limited
             THEN IF Size(d) < 40 THEN {ErrDeckTooSmall} ELSE {NoError}
        ELSE {ErrUnknownFormat}

\* Deck.Validate: the values it can return; the range over the Main map
\* visits the entries in an order of the runtime's choice and returns at
\* the first count above 4
Validate(d, format) ==
    LET over == {c \in DOMAIN d.Main : d.Main[c] > 4}
    IN  IF format = Constructed
        THEN IF Size(d) < 60 THEN {ErrDeckTooSmall}
             ELSE IF over # {} THEN {ErrCardLimitExceeded(c.Name) : c \in over}
             ELSE {NoError}
        ELSE IF format = Limited
             THEN IF Size(d) < 40 THEN {ErrDeckTooSmall} ELSE {NoError}
        ELSE {ErrUnknownFormat}

\* Validate taken alone: a Deck and a Format
InitValidate ==
    /\ NoProcess
    /\ call \in {[fn |-> "Validate", done |-> FALSE, format |-> f,
                  deck |-> [Main |-> m, Sideboard |-> sb],
                  before |-> [Main |-> m, Sideboard |-> sb],
                  out |-> NoError] :
                    f \in Formats, m \in CountMaps(MaxCards), sb \in CountMaps(1)}

\* Validate returns; it only reads the Deck
ValidateCall ==
    /\ call.fn = "Validate"
    /\ ~call.done
    /\ \E e \in Validate(call.deck, call.format) :
          call' = [call EXCEPT !.done = TRUE, !.out = e]
    /\ UNCHANGED <<phase, fatal, main, sideboard, tasks, cardCache, hashWriting,
                   deck, mu, wg, retErr, web, resolved>>

\* strconv.Itoa
RECURSIVE Itoa(_)
Itoa(n) ==
    IF n < 0 THEN <<"-">> \o Itoa(0 - n)
    ELSE IF n < 10 THEN <<DigitChars[n + 1]>>
    ELSE Itoa(n \div 10) \o <<DigitChars[(n % 10) + 1]>>

\* fmt's rendering of an int under the verb %s
BadVerbInt(n) == <<"%", "!", "s", "(", "i", "n", "t", "=">> \o Itoa(n) \o <<")">>

\* fmt's rendering of a Card under the verb %s: Card has no String method,
\* so the struct is printed field by field between braces
SprintCard(c) ==
    <<"{">> \o BadVerbInt(c.MultiverseID) \o <<" ">> \o c.Name \o <<" ">>
            \o c.ManaCost \o <<" ">> \o BadVerbInt(c.ConvertedManaCost) \o <<" ">>
            \o c.Type \o <<" ">> \o c.Text \o <<" ">> \o c.Rarity \o <<"}">>

\* fmt.Sprintf("%d %s\n", n, c) for the entries of a Deck map in the order
\* that the range yields them
RECURSIVE SprintEntries(_, _)
SprintEntries(m, order) ==
    IF order = << >> THEN EmptyStr
    ELSE Itoa(m[Head(order)]) \o <<" ">> \o SprintCard(Head(order)) \o <<"\n">>
            \o SprintEntries(m, Tail(order))

SideboardHeader == <<"\n", "S", "i", "d", "e", "b", "o", "a", "r", "d", ":", "\n">>

\* Deck.String, with the orders in which the two maps are ranged over
String(d, mainOrder, sideOrder) ==
    SprintEntries(d.Main, mainOrder)
        \o (IF Cardinality(DOMAIN d.Sideboard) > 0
            THEN SideboardHeader \o SprintEntries(d.Sideboard, sideOrder)
            ELSE EmptyStr)

\* the orders in which a range can yield the keys S of a map
RECURSIVE RangeOrders(_)
RangeOrders(S) ==
    IF S = {} THEN {<< >>}
    ELSE UNION {{<<k>> \o o : o \in RangeOrders(S \ {k})} : k \in S}

\* the lines that bufio.Scanner yields for a text: the pieces between the
\* newlines, without an empty piece after the last newline
ScannerLines(text) ==
    LET pieces == Split(text, "\n")
    IN  IF pieces[Len(pieces)] = EmptyStr THEN SubSeq(pieces, 1, Len(pieces) - 1)
        ELSE pieces

\* the lines of the deck-lists given to the scanner loop taken alone: those
\* of LinePool, larger counts, and blanks around the parts of a line
ScanLinePool ==
    LinePool \cup {<<"2", " ", "a">>, <<"3", " ", "a">>,
                   <<"S", "B", ":", "2", " ", "a">>,
                   <<"S", "B", ":", " ", "3", " ", "a", " ">>,
                   <<" ", "1", "2", " ", "b", "\t">>,
                   <<"1", " ", "S", "B", ":", "a">>,
                   <<"S", "B", ":">>}

ScanTexts == UNION {[1..k -> ScanLinePool] : k \in 0..MaxLines}

\* the scanner loop of NewDeck taken alone: the lines of the reader
InitScan ==
    /\ NoProcess
    /\ call \in {[fn |-> "NewDeck", done |-> FALSE, lines |-> t,
                  out |-> [err |-> FALSE, main |-> EmptyMap, sideboard |-> EmptyMap]] :
                    t \in ScanTexts}

\* the loop has read every line or stopped at a malformed one
ScanCall ==
    /\ call.fn = "NewDeck"
    /\ ~call.done
    /\ call' = [call EXCEPT !.done = TRUE,
                            !.out = ScanLines(call.lines, EmptyMap, EmptyMap)]
    /\ UNCHANGED <<phase, fatal, main, sideboard, tasks, cardCache, hashWriting,
                   deck, mu, wg, retErr, web, resolved>>

\* the texts in the value of a detail page's name row: letters and blanks
NameTexts == UNION {[1..k -> {" ", "\t", "a", "b"}] : k \in 0..MaxNameLen}

\* the detail pages given to parseCard taken alone
ParseDocs ==
    {[NoDoc EXCEPT !.table = t, !.nameRow = r, !.name = n] :
        t \in BOOLEAN, r \in {"absent", "ok"}, n \in NameTexts}

\* parseCard taken alone: the parsed page
InitParse ==
    /\ NoProcess
    /\ call \in {[fn |-> "parseCard", done |-> FALSE, doc |-> d,
                  out |-> [kind |-> "none", card |-> ZeroCard]] : d \in ParseDocs}

\* parseCard returns or panics
ParseCall ==
    /\ call.fn = "parseCard"
    /\ ~call.done
    /\ call' = [call EXCEPT !.done = TRUE, !.out = parseCard(call.doc)]
    /\ UNCHANGED <<phase, fatal, main, sideboard, tasks, cardCache, hashWriting,
                   deck, mu, wg, retErr, web, resolved>>

\* a further NewDeck call after the previous one returned
NewDeckAgain ==
    /\ phase = "returned"
    /\ \E p \in Scanned : NewDeck(p)

\* GetCardForName returned an error: the goroutine prints the message and
\* returns, and the deferred wg.Done runs
Drop(t) ==
    /\ tasks' = [tasks EXCEPT ![t] = [@ EXCEPT !.pc = "dropped", !.card = ZeroCard,
                                               !.err = TRUE,
                                               !.url = EmptyStr, !.depth = 0]]
    /\ wg' = wg - 1

\* history: GetCardForName(name) returned card without error
Returned(name, card) ==
    resolved' = IF name \in DOMAIN resolved THEN resolved ELSE MapPut(resolved, name, card)

\* GetCardForName, the read of cardCache[name]: a hit returns the entry, a
\* miss enters makeGathererRequest.  The read is not synchronised: while
\* another goroutine is inside the map assignment the runtime may stop the
\* process ("concurrent map read and map write")
CacheLookup(t) ==
    /\ phase = "running"
    /\ t \in DOMAIN tasks
    /\ tasks[t].pc = "start"
    /\ \/ /\ hashWriting
          /\ Crash("concurrent map read and map write")
       \/ /\ IF TaskName(t) \in DOMAIN cardCache
             THEN /\ tasks' = [tasks EXCEPT ![t] = [@ EXCEPT !.pc = "lock",
                                                             !.card = cardCache[TaskName(t)]]]
                  /\ Returned(TaskName(t), cardCache[TaskName(t)])
             ELSE /\ tasks' = [tasks EXCEPT ![t] = [@ EXCEPT !.pc = "req",
                                                             !.url = SearchURL(TaskName(t)),
                                                             !.depth = 1]]
                  /\ UNCHANGED resolved
          /\ UNCHANGED <<phase, fatal, main, sideboard, cardCache, hashWriting,
                         deck, mu, wg, retErr, web, call>>

\* one frame of makeGathererRequest: http.Get and the routing of the
\* response, up to the next request or to the end of GetCardForName's
\* extraction
HttpGet(t) ==
    /\ phase = "running"
    /\ t \in DOMAIN tasks
    /\ tasks[t].pc = "req"
    /\ \E o \in Answers(tasks[t].url, TaskName(t)) :
         \/ /\ o.kind = "err"
            /\ Drop(t)
            /\ UNCHANGED <<phase, fatal, main, sideboard, cardCache, hashWriting,
                           deck, mu, retErr, web, resolved, call>>
         \/ /\ o.kind = "panic"
            /\ Crash("nil pointer dereference")
         \/ /\ o.kind = "follow"
            /\ tasks[t].depth < MaxDepth
            /\ tasks' = [tasks EXCEPT ![t] = [@ EXCEPT !.url = o.url,
                                                       !.depth = @ + 1]]
            /\ UNCHANGED <<phase, fatal, main, sideboard, cardCache, hashWriting,
                           deck, mu, wg, retErr, web, resolved, call>>
         \/ /\ o.kind = "ok"
            /\ tasks' = [tasks EXCEPT ![t] = [@ EXCEPT !.pc = "publish",
                                                       !.card = o.card,
                                                       !.err = o.err,
                                                       !.url = EmptyStr,
                                                       !.depth = 0]]
            /\ UNCHANGED <<phase, fatal, main, sideboard, cardCache, hashWriting,
                           deck, mu, wg, retErr, web, resolved, call>>

\* cardCache[name] = card, entry of the runtime's map assignment: it marks
\* the map as being written; a second writer is a fatal error
MapAssignBegin(t) ==
    /\ phase = "running"
    /\ t \in DOMAIN tasks
    /\ tasks[t].pc = "publish"
    /\ IF hashWriting
       THEN Crash("concurrent map writes")
       ELSE /\ hashWriting' = TRUE
            /\ tasks' = [tasks EXCEPT ![t] = [@ EXCEPT !.pc = "assigning"]]
            /\ UNCHANGED <<phase, fatal, main, sideboard, cardCache, deck, mu, wg,
                           retErr, web, resolved, call>>

\* cardCache[name] = card, exit of the map assignment: the slot of the key
\* exists (a new one holds the zero Card) and the mark is cleared; the value
\* is stored afterwards
MapAssignEnd(t) ==
    /\ phase = "running"
    /\ t \in DOMAIN tasks
    /\ tasks[t].pc = "assigning"
    /\ hashWriting' = FALSE
    /\ cardCache' = IF TaskName(t) \in DOMAIN cardCache THEN cardCache
                    ELSE MapPut(cardCache, TaskName(t), ZeroCard)
    /\ tasks' = [tasks EXCEPT ![t] = [@ EXCEPT !.pc = "storing"]]
    /\ UNCHANGED <<phase, fatal, main, sideboard, deck, mu, wg, retErr, web, resolved, call>>

\* cardCache[name] = card, the store of the value, and "return card, err":
\* with an error the goroutine drops the name
StoreAndReturn(t) ==
    /\ phase = "running"
    /\ t \in DOMAIN tasks
    /\ tasks[t].pc = "storing"
    /\ cardCache' = MapPut(cardCache, TaskName(t), tasks[t].card)
    /\ IF tasks[t].err
       THEN /\ Drop(t)
            /\ UNCHANGED resolved
       ELSE /\ tasks' = [tasks EXCEPT ![t] = [@ EXCEPT !.pc = "lock"]]
            /\ Returned(TaskName(t), tasks[t].card)
            /\ UNCHANGED wg
    /\ UNCHANGED <<phase, fatal, main, sideboard, hashWriting, deck, mu, retErr, web, call>>

\* Lock without the mutex: the merge is entered whoever holds mu
Lock_NoMutex(t) ==
    /\ phase = "running"
    /\ t \in DOMAIN tasks
    /\ tasks[t].pc = "lock"
    /\ mu' = t
    /\ tasks' = [tasks EXCEPT ![t] =
                    [@ EXCEPT !.pc = "merging",
                              !.tmp = IF TaskSection(t) = "main"
                                      THEN MapGet(deck.Main, tasks[t].card)
                                      ELSE MapGet(deck.Sideboard, tasks[t].card)]]
    /\ UNCHANGED <<phase, fatal, main, sideboard, cardCache, hashWriting, deck, wg,
                   retErr, web, resolved, call>>

\* mu.Lock() and the read of deck.X[card] for the += that follows
Lock(t) ==
    /\ phase = "running"
    /\ t \in DOMAIN tasks
    /\ tasks[t].pc = "lock"
    /\ mu = NoTask
    /\ mu' = t
    /\ tasks' = [tasks EXCEPT ![t] =
                    [@ EXCEPT !.pc = "merging",
                              !.tmp = IF TaskSection(t) = "main"
                                      THEN MapGet(deck.Main, tasks[t].card)
                                      ELSE MapGet(deck.Sideboard, tasks[t].card)]]
    /\ UNCHANGED <<phase, fatal, main, sideboard, cardCache, hashWriting, deck, wg,
                   retErr, web, resolved, call>>

\* the merge as an assignment deck.X[card] = count in place of the +=
MergeUnlock_Assign(t) ==
    /\ phase = "running"
    /\ t \in DOMAIN tasks
    /\ tasks[t].pc = "merging"
    /\ deck' = IF TaskSection(t) = "main"
               THEN [deck EXCEPT !.Main = MapPut(@, tasks[t].card, tasks[t].count)]
               ELSE [deck EXCEPT !.Sideboard = MapPut(@, tasks[t].card, tasks[t].count)]
    /\ mu' = NoTask
    /\ wg' = wg - 1
    /\ tasks' = [tasks EXCEPT ![t] = [@ EXCEPT !.pc = "merged", !.tmp = 0]]
    /\ UNCHANGED <<phase, fatal, main, sideboard, cardCache, hashWriting, retErr,
                   web, resolved, call>>

\* the write of deck.X[card] += count, mu.Unlock() and the deferred wg.Done
MergeUnlock(t) ==
    /\ phase = "running"
    /\ t \in DOMAIN tasks
    /\ tasks[t].pc = "merging"
    /\ deck' = IF TaskSection(t) = "main"
               THEN [deck EXCEPT !.Main = MapPut(@, tasks[t].card, tasks[t].tmp + tasks[t].count)]
               ELSE [deck EXCEPT !.Sideboard = MapPut(@, tasks[t].card, tasks[t].tmp + tasks[t].count)]
    /\ mu' = NoTask
    /\ wg' = wg - 1
    /\ tasks' = [tasks EXCEPT ![t] = [@ EXCEPT !.pc = "merged", !.tmp = 0]]
    /\ UNCHANGED <<phase, fatal, main, sideboard, cardCache, hashWriting, retErr,
                   web, resolved, call>>

\* NewDeck without wg.Wait(): it returns while goroutines are running
NewDeckReturn_NoWait ==
    /\ phase = "running"
    /\ phase' = "returned"
    /\ \E e \in {"nil", "io"} : retErr' = e
    /\ UNCHANGED <<fatal, main, sideboard, tasks, cardCache, hashWriting, deck, mu, wg,
                   web, resolved, call>>

\* wg.Wait() and "return deck, scanner.Err()"
NewDeckReturn ==
    /\ phase = "running"
    /\ wg = 0
    /\ phase' = "returned"
    /\ \E e \in {"nil", "io"} : retErr' = e
    /\ UNCHANGED <<fatal, main, sideboard, tasks, cardCache, hashWriting, deck, mu, wg,
                   web, resolved, call>>

\* ClearCardCache, called while no lookup is running
ClearCardCache ==
    /\ phase \in {"idle", "returned"}
    /\ cardCache' = EmptyMap
    /\ hashWriting' = FALSE
    /\ resolved' = EmptyMap
    /\ UNCHANGED <<phase, fatal, main, sideboard, tasks, deck, mu, wg, retErr, web, call>>

\* the steps of the goroutines and the return of NewDeck
Run ==
    \/ \E t \in TaskIds : CacheLookup(t)
    \/ \E t \in TaskIds : HttpGet(t)
    \/ \E t \in TaskIds : MapAssignBegin(t)
    \/ \E t \in TaskIds : MapAssignEnd(t)
    \/ \E t \in TaskIds : StoreAndReturn(t)
    \/ \E t \in TaskIds : Lock(t)
    \/ \E t \in TaskIds : MergeUnlock(t)
    \/ NewDeckReturn

\* one NewDeck call in the life of the process
Next ==
    \/ NewDeckStart
    \/ Run
    \/ ClearCardCache

Spec == Init /\ [][Next]_vars

\* NewDeck called again and again, the cache living on between the calls
NextAgain ==
    \/ NewDeckStart
    \/ NewDeckAgain
    \/ Run
    \/ ClearCardCache

SpecAgain == Init /\ [][NextAgain]_vars

\* one NewDeck call in front of a service with fixed answers
NextFixed ==
    \/ NewDeckStart
    \/ Run

SpecFixed == InitFixed /\ [][NextFixed]_vars

\* one frame of makeGathererRequest
SpecRoute == InitRoute /\ [][RouteCall]_vars

\* one resolvePath call
SpecResolve == InitResolve /\ [][ResolveCall]_vars

\* one findNode and one findAllNodes call on the same tree
SpecSearch == InitSearch /\ [][SearchCall]_vars

\* one Validate call
SpecValidate == InitValidate /\ [][ValidateCall]_vars

\* the scanner loop of one NewDeck call
SpecScan == InitScan /\ [][ScanCall]_vars

\* one parseCard call
SpecParse == InitParse /\ [][ParseCall]_vars

\* one NewDeck call on a deck-list of different names
NextDistinct ==
    \/ NewDeckDistinct
    \/ Run

SpecDistinct == Init /\ [][NextDistinct]_vars
----------------------------------------------------------------------------
(* Properties                                                              *)

\* the goroutine has ended: its Card was merged or its name dropped
Finished(t) == tasks[t].pc \in {"dropped", "merged"}

\* C1: NewDeck returns only after every goroutine it launched has finished,
\* by merging its count or by dropping its name: in no state has NewDeck
\* returned while a goroutine is outstanding, holds the mutex or is counted
\* by the WaitGroup, so none can still write into the returned Deck
C1_ReturnsAfterAllTasks ==
    phase = "returned" =>
        /\ \A t \in DOMAIN tasks : Finished(t)
        /\ wg = 0
        /\ mu = NoTask

\* a call that returned after one goroutine merged and another dropped
C1_Witness ==
    /\ phase = "returned"
    /\ \E t, u \in DOMAIN tasks : tasks[t].pc = "merged" /\ tasks[u].pc = "dropped"

\* C4: at most one goroutine is inside the update of the Deck maps
\* (deck.Main[card] += count or deck.Sideboard[card] += count), and it is
\* the holder of the mutex
C4_MergeExclusive ==
    \A t, u \in DOMAIN tasks :
        tasks[t].pc = "merging" =>
            /\ mu = t
            /\ tasks[u].pc = "merging" => u = t

\* a main and a sideboard goroutine: one inside the update, one waiting for mu
C4_Witness ==
    \E t, u \in DOMAIN tasks :
        /\ TaskSection(t) = "main" /\ TaskSection(u) = "sideboard"
        /\ tasks[t].pc = "merging"
        /\ tasks[u].pc = "lock"
\* the goroutines whose lookup ended with an error
Failed == {t \in DOMAIN tasks : Finished(t) /\ tasks[t].err}

\* the Cards that have an entry in the Deck
DeckCards == (DOMAIN deck.Main) \cup (DOMAIN deck.Sideboard)

\* NewDeck returned a Deck for a deck-list of different names, and the
\* lookup of exactly one of them failed
OneOfDistinctFailed ==
    /\ phase = "returned"
    /\ retErr # "line"
    /\ (DOMAIN main) \cap (DOMAIN sideboard) = {}
    /\ Cardinality(Failed) = 1

\* C2 as claimed: with N different names of which exactly one fails to
\* resolve, the Deck has exactly N-1 Card entries and NewDeck returns no
\* error of the failed lookup; and a lookup that cannot make a Card of what
\* the service answers is never fatal: it does not end the process
C2_ExactlyNMinusOne ==
    /\ OneOfDistinctFailed =>
          /\ Cardinality(DeckCards) = Cardinality(DOMAIN tasks) - 1
          /\ retErr \in {"nil", "io"}
    /\ fatal # "nil pointer dereference"

InCacheWrite(t) == tasks[t].pc \in {"assigning", "storing"}

\* C3 as claimed: a goroutine's write of cardCache has the cache for itself:
\* no goroutine starts a read or a write of cardCache while another one is
\* inside its write
C3_CacheWriteExclusive ==
    [][\A t \in DOMAIN tasks :
          (/\ tasks[t].pc \in {"start", "publish"}
           /\ t \in DOMAIN tasks'
           /\ tasks'[t].pc # tasks[t].pc)
              => \A u \in (DOMAIN tasks) \ {t} : ~InCacheWrite(u)]_vars

\* the entry of name n is complete: no goroutine has just created its slot
\* and has yet to store the value
Settled(n) ==
    /\ n \in DOMAIN cardCache
    /\ ~(\E t \in DOMAIN tasks :
            TaskName(t) = n /\ tasks[t].pc = "storing" /\ cardCache[n] = ZeroCard)

\* C6 as claimed: once the cache holds a Card for a name, the entry stays
\* as it is until ClearCardCache (or the end of the process)
C6_WriteOnce ==
    [][\A n \in DOMAIN cardCache :
          Settled(n) =>
              \/ n \in DOMAIN cardCache' /\ cardCache'[n] = cardCache[n]
              \/ phase \in {"idle", "returned"} /\ cardCache' = EmptyMap
              \/ phase' = "crashed"]_vars

\* C8 as claimed: a lookup makes at most two requests: makeGathererRequest
\* is never more than two frames deep
C8_AtMostTwoRequests == \A t \in DOMAIN tasks : tasks[t].depth <= 2

\* C10 as claimed: every entry of the Deck that NewDeck returns for an
\* accepted deck-list has a count of at least 1
C10_CountsPositive ==
    (phase = "returned" /\ retErr = "nil") =>
        /\ \A c \in DOMAIN deck.Main : deck.Main[c] >= 1
        /\ \A c \in DOMAIN deck.Sideboard : deck.Sideboard[c] >= 1
\* the Card that a lookup of cardName gets from the service w when it starts
\* at url with an empty cache and no other lookup runs; "none" when it fails
RECURSIVE ResolveAlone(_, _, _, _)
ResolveAlone(w, url, cardName, fuel) ==
    LET o == Outcome(w.page[url], cardName)
    IN  IF o.kind = "follow"
        THEN IF fuel = 0 THEN [found |-> FALSE, card |-> ZeroCard]
             ELSE ResolveAlone(w, o.url, cardName, fuel - 1)
        ELSE IF o.kind = "ok" /\ ~o.err THEN [found |-> TRUE, card |-> o.card]
        ELSE [found |-> FALSE, card |-> ZeroCard]

\* the map from Card to count that the resolved names of a section add up to
RECURSIVE MergeAlone(_, _, _)
MergeAlone(w, counts, names) ==
    IF names = {} THEN EmptyMap
    ELSE LET n == CHOOSE x \in names : TRUE
             r == ResolveAlone(w, SearchURL(n), n, MaxDepth)
             rest == MergeAlone(w, counts, names \ {n})
         IN  IF r.found THEN MapAdd(rest, r.card, counts[n]) ELSE rest

\* the Deck of the deck-list when every name is resolved on its own
DeckAlone ==
    [Main      |-> MergeAlone(web, main, DOMAIN main),
     Sideboard |-> MergeAlone(web, sideboard, DOMAIN sideboard)]

\* C5 as claimed: with a fixed deck-list, an empty cache at the start and
\* fixed answers of the service, NewDeck returns one and the same Deck
\* whatever the interleaving of the goroutines: the Deck in which every
\* name that resolves contributes its count to its Card
C5_SameDeck ==
    (phase = "returned" /\ retErr # "line" /\ web.fixed) => deck = DeckAlone

\* C7 as claimed: a GetCardForName call that finds the name in the cache
\* returns the entry, makes no request and leaves the cache as it is; and
\* when the name was resolved before, the Card is the one returned then
C7_CacheServed ==
    [][\A t \in DOMAIN tasks :
          (/\ tasks[t].pc = "start"
           /\ TaskName(t) \in DOMAIN cardCache
           /\ t \in DOMAIN tasks'
           /\ tasks'[t].pc # "start")
              => /\ tasks'[t].pc = "lock"
                 /\ tasks'[t].card = cardCache[TaskName(t)]
                 /\ cardCache' = cardCache
                 /\ TaskName(t) \in DOMAIN resolved
                       => tasks'[t].card = resolved[TaskName(t)]]_vars

\* no row of the result page has a title equal to the name
NoRowMatches(rows, cardName) ==
    \A i \in 1..Len(rows) : ~(rows[i].title = "link" /\ rows[i].text = cardName)

\* C9 as claimed: the routing hands a response on for extraction only when
\* the final path is the detail page; the error page, a result page without
\* the table, without rows or without a row whose title is the name, and
\* every other path end in an error
C9_RoutingEndsInError ==
    (call.fn = "makeGathererRequest" /\ call.done /\ ~call.resp.err) =>
        /\ call.out.kind = "page" => call.resp.path = DetailsPath
        /\ call.resp.path = ErrorPath => call.out.kind = "err"
        /\ call.resp.path \notin {DetailsPath, ErrorPath, SearchPath} => call.out.kind = "err"
        /\ (/\ call.resp.path = SearchPath
            /\ \/ ~call.resp.doc.table
               \/ NoRowMatches(call.resp.doc.rows, call.name))
              => call.out.kind = "err"
\* resolvePath has returned for base b and reference r
Resolved(b, r) ==
    /\ call.fn = "resolvePath"
    /\ call.done
    /\ call.base = b
    /\ call.ref = r

\* C11 as claimed: resolvePath of /Pages/Search/Default.aspx and
\* Details.aspx?x=1 is /Pages/Details.aspx?x=1, and of /a/b/c and ../d it
\* is /a/d
C11_Examples ==
    /\ Resolved(SearchPath, RefDetailsX) =>
          call.out = <<"/","P","a","g","e","s","/">> \o RefDetailsX
    /\ Resolved(BaseABC, RefUpD) => call.out = <<"/","a","/","d">>

\* C11, amended: resolvePath of /Pages/Search/Default.aspx and
\* Details.aspx?x=1 is /Pages/Search/Details.aspx?x=1 (the reference
\* replaces the last segment of the base and nothing more), and of /a/b/c
\* and ../d it is /a/d
C11_ExamplesInBaseDirectory ==
    /\ Resolved(SearchPath, RefDetailsX) =>
          call.out = <<"/","P","a","g","e","s","/","S","e","a","r","c","h","/">> \o RefDetailsX
    /\ Resolved(BaseABC, RefUpD) => call.out = <<"/","a","/","d">>

C11_Witness == Resolved(SearchPath, RefDetailsX)

\* C12 as claimed: with the empty reference resolvePath returns the base
\* path as it is
C12_EmptyReference ==
    (call.fn = "resolvePath" /\ call.done /\ call.ref = EmptyStr) => call.out = call.base

\* the segments that stay when segs[1..i] is read from the right: a "."
\* is dropped, a ".." is dropped and takes the nearest segment to its left
\* that is still there with it
RECURSIVE KeptFromRight(_, _, _)
KeptFromRight(segs, i, skip) ==
    IF i = 0 THEN << >>
    ELSE IF segs[i] = <<".">> THEN KeptFromRight(segs, i - 1, skip)
    ELSE IF segs[i] = <<".", ".">> THEN KeptFromRight(segs, i - 1, skip + 1)
    ELSE IF skip > 0 THEN KeptFromRight(segs, i - 1, skip - 1)
    ELSE Append(KeptFromRight(segs, i - 1, 0), segs[i])

\* the base up to and including its last "/"
RECURSIVE DirOf(_)
DirOf(b) ==
    IF b = EmptyStr \/ b[Len(b)] = "/" THEN b ELSE DirOf(SubSeq(b, 1, Len(b) - 1))

\* the result that the rule of the relative reference describes
RelativeResult(b, r) ==
    LET segs == Split(DirOf(b) \o r, "/")
        kept == KeptFromRight(segs, Len(segs), 0)
        last == segs[Len(segs)]
        all  == IF last \in {<<".">>, <<".", ".">>} THEN Append(kept, EmptyStr) ELSE kept
    IN  <<"/">> \o TrimLeftSlash(Join(all, <<"/">>))

\* C13: for a non-empty reference that does not begin with "/", resolvePath
\* returns one leading "/" followed by the "/"-joined normalized segments of
\* the base's directory with the reference appended: "." segments are
\* dropped, a ".." removes the retained segment before it or is dropped
\* when there is none, and the result ends in "/" when the last segment of
\* the merged path is "." or ".."
C13_RelativeReference ==
    (/\ call.fn = "resolvePath"
     /\ call.done
     /\ call.ref # EmptyStr
     /\ Head(call.ref) # "/")
        => /\ call.out = RelativeResult(call.base, call.ref)
           /\ Head(call.out) = "/"
           /\ Len(call.out) > 1 => call.out[2] # "/"
           /\ \A i \in 1..Len(Split(call.out, "/")) :
                 Split(call.out, "/")[i] \notin {<<".">>, <<".", ".">>}
           /\ LET segs == Split(DirOf(call.base) \o call.ref, "/")
              IN  segs[Len(segs)] \in {<<".">>, <<".", ".">>}
                     => call.out[Len(call.out)] = "/"

\* a ".." with a segment to remove, and a last segment ".."
C13_Witness ==
    /\ Resolved(<<"/", "a", "/">>, <<".", ".">>)
    /\ call.out = <<"/">>
\* the nodes of the tree level by level: the root, then the children of
\* the nodes of the level before, in their order
RECURSIVE Flatten(_)
Flatten(seqs) == IF seqs = << >> THEN << >> ELSE Head(seqs) \o Flatten(Tail(seqs))

RECURSIVE LevelsFrom(_, _)
LevelsFrom(children, level) ==
    IF level = << >> THEN << >>
    ELSE level \o LevelsFrom(children,
                             Flatten([i \in 1..Len(level) |-> children[level[i]]]))

BreadthFirst(children) == LevelsFrom(children, <<1>>)

\* the elements of seq that are in match, in the order of seq
RECURSIVE Matching(_, _)
Matching(seq, match) ==
    IF seq = << >> THEN << >>
    ELSE IF Head(seq) \in match THEN <<Head(seq)>> \o Matching(Tail(seq), match)
    ELSE Matching(Tail(seq), match)

\* C14: findAllNodes returns every node that satisfies the predicate exactly
\* once, in breadth-first order (the root, then level by level, the
\* children in document order); findNode returns the first node of that
\* order that satisfies the predicate, the first element of findAllNodes,
\* or nil when no node does
C14_BreadthFirstSearch ==
    (call.fn = "nodeSearch" /\ call.done) =>
        /\ call.all = Matching(BreadthFirst(call.children), call.match)
        /\ \A n \in call.match : Cardinality({i \in 1..Len(call.all) : call.all[i] = n}) = 1
        /\ call.first = IF call.all = << >> THEN NilNode ELSE call.all[1]
        /\ call.match = {} <=> call.first = NilNode

\* a tree whose breadth-first order is neither the order of the node
\* numbers nor the depth-first order, with two matches on the last levels
C14_Witness ==
    /\ call.fn = "nodeSearch"
    /\ call.done
    /\ call.children = <<<<2, 4>>, <<3>>, << >>, << >>>>
    /\ call.match = {3, 4}
    /\ call.first = 4
    /\ call.all = <<4, 3>>
\* Validate(Constructed) has returned
ValidatedConstructed ==
    /\ call.fn = "Validate"
    /\ call.done
    /\ call.format = Constructed

\* the sum of the counts of the Main map before the call, entry by entry
RECURSIVE MainTotal(_)
MainTotal(m) ==
    IF DOMAIN m = {} THEN 0
    ELSE LET c == CHOOSE x \in DOMAIN m : TRUE
         IN  m[c] + MainTotal([x \in (DOMAIN m) \ {c} |-> m[x]])

AllResolvedByName ==
    /\ phase = "returned"
    /\ retErr = "nil"
    /\ \A t \in DOMAIN tasks : tasks[t].pc = "merged" /\ tasks[t].card.Name = TaskName(t)

\* C16 as claimed: the text that String() renders of the Deck of an
\* accepted deck-list parses again, and to the counts per name of the first
\* parse, in the main deck and in the sideboard
C16_RenderedTextParsesBack ==
    AllResolvedByName =>
        \A mo \in RangeOrders(DOMAIN deck.Main), so \in RangeOrders(DOMAIN deck.Sideboard) :
            LET again == ScanLines(ScannerLines(String(deck, mo, so)), EmptyMap, EmptyMap)
            IN  /\ ~again.err
                /\ again.main = main
                /\ again.sideboard = sideboard
\* what a line of a deck-list says: nothing (a blank line), or a count of a
\* name for the sideboard (after "SB:") or for the main deck
LineEntry(raw) ==
    LET t    == TrimSpace(raw)
        side == Len(t) > 3 /\ t[1] = "S" /\ t[2] = "B" /\ t[3] = ":"
        p    == parseCardLine(IF side THEN TrimSpace(SubSeq(t, 4, Len(t))) ELSE t)
    IN  [blank   |-> t = EmptyStr,
         section |-> IF side THEN "sideboard" ELSE "main",
         name    |-> p.name,
         count   |-> p.n]

\* the sum of the counts of the lines 1..i that name the card in the section
RECURSIVE LineSum(_, _, _, _)
LineSum(lines, i, section, name) ==
    IF i = 0 THEN 0
    ELSE LET e == LineEntry(lines[i])
         IN  LineSum(lines, i - 1, section, name)
                + (IF ~e.blank /\ e.section = section /\ e.name = name THEN e.count ELSE 0)

\* the names that the lines of the section name
NamedIn(lines, section) ==
    {LineEntry(lines[i]).name :
        i \in {j \in 1..Len(lines) : ~LineEntry(lines[j]).blank
                                      /\ LineEntry(lines[j]).section = section}}

\* C17: for an accepted deck-list the parsed count of a name in a section
\* is the sum of the counts of the lines of that section that name it: the
\* lines that begin with SB: count for the sideboard only, all others for
\* the main deck only, and the lines of one name add up
C17_CountsAddUp ==
    (call.fn = "NewDeck" /\ call.done /\ ~call.out.err) =>
        /\ DOMAIN call.out.main = NamedIn(call.lines, "main")
        /\ DOMAIN call.out.sideboard = NamedIn(call.lines, "sideboard")
        /\ \A n \in DOMAIN call.out.main :
              call.out.main[n] = LineSum(call.lines, Len(call.lines), "main", n)
        /\ \A n \in DOMAIN call.out.sideboard :
              call.out.sideboard[n] = LineSum(call.lines, Len(call.lines), "sideboard", n)

\* "2 a" and "3 a" give the one main entry a with 5 and no sideboard entry
C17_Witness ==
    /\ call.fn = "NewDeck"
    /\ call.done
    /\ call.lines = <<<<"2", " ", "a">>, <<"3", " ", "a">>>>
    /\ call.out = [err |-> FALSE, main |-> (<<"a">> :> 5), sideboard |-> EmptyMap]
\* C18 as claimed: parseCard returns a Card with a non-empty Name or fails
\* with an error, and it fails with an error on a page that has no name row
C18_NameNeverEmpty ==
    (call.fn = "parseCard" /\ call.done) =>
        /\ call.out.kind \in {"ok", "err"}
        /\ call.out.kind = "ok" => call.out.card.Name # EmptyStr
        /\ call.doc.nameRow = "absent" => call.out.kind = "err"
\* C19 as claimed: a GetCardForName call that returns an error leaves the
\* cache as it was: the step in which a goroutine's lookup ends with an
\* error does not change cardCache
C19_FailedLookupLeavesCache ==
    [][\A t \in DOMAIN tasks :
          (/\ tasks[t].pc # "dropped"
           /\ t \in DOMAIN tasks'
           /\ tasks'[t].pc = "dropped")
              => cardCache' = cardCache]_vars

\* the sum of the parsed counts of the names of a section whose goroutine
\* merged its Card
RECURSIVE MergedSum(_, _, _)
MergedSum(section, counts, names) ==
    IF names = {} THEN 0
    ELSE LET n == CHOOSE x \in names : TRUE
         IN  MergedSum(section, counts, names \ {n})
                + (IF tasks[<<section, n>>].pc = "merged" THEN counts[n] ELSE 0)

\* C20: when NewDeck returns, the counts of Deck.Main add up to the parsed
\* main counts of the names that were resolved, and those of Deck.Sideboard
\* to the parsed sideboard counts of the names that were resolved, also
\* when different names were resolved to one Card
C20_NoMergeLost ==
    (phase = "returned" /\ retErr # "line") =>
        /\ SumCounts(deck.Main, DOMAIN deck.Main) = MergedSum("main", main, DOMAIN main)
        /\ SumCounts(deck.Sideboard, DOMAIN deck.Sideboard)
              = MergedSum("sideboard", sideboard, DOMAIN sideboard)

\* two names of the main deck were resolved to one Card and both merged
C20_Witness ==
    /\ phase = "returned"
    /\ \E t, u \in DOMAIN tasks :
          /\ t # u
          /\ TaskSection(t) = "main" /\ TaskSection(u) = "main"
          /\ tasks[t].pc = "merged" /\ tasks[u].pc = "merged"
          /\ tasks[t].card = tasks[u].card
          /\ main[TaskName(t)] = 1 /\ main[TaskName(u)] = 1
          /\ deck.Main[tasks[t].card] = 2
====
